---- MODULE Spec2Model ----
(***************************************************************************)
(* Model of the Datura client of src/src/datura_py/api.py: construction,   *)
(* the scoped lifecycle (__enter__/__exit__), the shared request executor  *)
(* handle_request and the seven endpoint methods.                          *)
(*                                                                         *)
(* One action is one call of one method of the class.  The HTTP round trip *)
(* of a call is an input of the action: either the request function raises *)
(* a transport exception, or it returns a response (status, text).         *)
(***************************************************************************)
EXTENDS Integers, Sequences, FiniteSets, TLC

VARIABLES
    api_key,      \* argument of the last constructor call, <<>> before it
    session,      \* self.client: "absent", "open" or "closed"
    headers,      \* self.client.headers: header name -> value (empty before construction)
    ctorExc,      \* name of the exception raised by the constructor, "none" if none
    scope,        \* position of the caller's with statement
    exitPath,     \* how the with body was left: "none", "normal", "return", "raise"
    propagated,   \* an exception left the with statement
    call,         \* record of the most recent endpoint call
    twInput       \* a preset argument list of basic_twitter_search, <<>> if none

vars == <<api_key, session, headers, ctorExc,
          scope, exitPath, propagated, call, twInput>>

----------------------------------------------------------------------------
(* Program constants *)

BASE_URL == "https://apis.datura.ai"
AUTH_HEADER == "Authorization"
TIMEOUT == 120

----------------------------------------------------------------------------
(* Python values.  Every value is a tagged record, so that None, False, 0  *)
(* and "" are four different values.                                       *)

None == [t |-> "NoneType", v |-> "None"]
PyStr(s) == [t |-> "str", v |-> s]
PyBool(b) == [t |-> "bool", v |-> IF b THEN "True" ELSE "False"]
PyInt(n) == [t |-> "int", v |-> ToString(n)]
PyList(items) == [t |-> "list", items |-> items]

(* Truth value of a Python value. *)
Truthy(v) == v \notin {None, PyBool(FALSE), PyInt(0), PyStr("")}

(* The closed sets of the schema layer (protocol.py). *)
ToolEnum == {"web", "twitter", "hackernews"}
ModelEnum == {"NOVA", "ORBIT", "HORIZON"}
DateFilterEnum == {"PAST_24_HOURS", "PAST_WEEK", "PAST_MONTH"}

----------------------------------------------------------------------------
(* The HTTP round trip *)

Unauthorized == "{\"detail\":\"unauthorized\"}"
Malformed == "<html>Bad Gateway</html>"

Statuses == {200, 304, 401, 503}
Bodies == {Unauthorized, Malformed}
NetworkFailures == {"ConnectionError", "Timeout"}

(* What request_func does: raise a transport exception or return a response. *)
Outcomes ==
    [kind : {"raise"}, exc : NetworkFailures, status : {0}, text : {""}]
    \cup [kind : {"response"}, exc : {"none"}, status : Statuses, text : Bodies]

(* Exceptions: the class name and, for an HTTPError, the response it carries. *)
NoExc == [type |-> "none", status |-> 0, text |-> ""]
Exc(type) == [type |-> type, status |-> 0, text |-> ""]
HTTPError(response) == [type |-> "HTTPError", status |-> response.status, text |-> response.text]

(* requests.exceptions: HTTPError, ConnectionError, Timeout and           *)
(* JSONDecodeError (requests 2.27 and later) derive from RequestException. *)
IsHTTPError(e) == e.type = "HTTPError"
IsRequestException(e) ==
    e.type \in {"HTTPError", "ConnectionError", "Timeout", "JSONDecodeError"}

(* A raise_for_status that knows the client errors only. *)
raise_for_status_client_only(response) ==
    IF 400 <= response.status /\ response.status < 500
    THEN HTTPError(response)
    ELSE NoExc

(* response.raise_for_status(): an HTTPError for a 4xx or 5xx status. *)
raise_for_status(response) ==
    IF 400 <= response.status /\ response.status < 600
    THEN HTTPError(response)
    ELSE NoExc

(* response.json(): the decoded body, or no value for a malformed body. *)
IsJson(text) == text = Unauthorized
json(text) == IF text = Unauthorized THEN <<[detail |-> "unauthorized"]>> ELSE <<>>

ErrorRecord(msg) == [level |-> "ERROR", msg |-> msg]

Request(verb, url, kwargs) ==
    [verb |-> verb, url |-> url, json |-> kwargs.json, params |-> kwargs.params,
     timeout |-> TIMEOUT]

(* Keyword arguments of the three call shapes. *)
JsonBody(payload) == [json |-> <<payload>>, params |-> <<>>]
QueryParams(payload) == [json |-> <<>>, params |-> <<payload>>]
NoKwargs == [json |-> <<>>, params |-> <<>>]

(* A request executor that tries a second time after a failure. *)
request_calls_retry(req, raised) == IF raised # NoExc THEN <<req, req>> ELSE <<req>>

(* The invocations of request_func made by one handle_request call: the    *)
(* try statement is not inside a loop, whatever it raised.                 *)
request_calls(req, raised) == <<req>>

(* The try body: request_func, raise_for_status and json in this order,    *)
(* stopping at the first that raises.  o is what request_func does.        *)
try_body(o) ==
    IF o.kind = "raise" THEN Exc(o.exc)
    ELSE IF raise_for_status(o) # NoExc THEN raise_for_status(o)
    ELSE IF ~IsJson(o.text) THEN Exc("JSONDecodeError")
    ELSE NoExc

(* A network clause that also runs for what the HTTP clause handled. *)
network_clause_fallthrough(raised) == raised # NoExc /\ IsRequestException(raised)

(* The except clauses, tried in order; each logs once and re-raises.       *)
http_clause(raised) == raised # NoExc /\ IsHTTPError(raised)

network_clause(raised) ==
    raised # NoExc /\ ~http_clause(raised) /\ IsRequestException(raised)

(***************************************************************************)
(* handle_request.  The HTTP clause reads the local name response, which   *)
(* is bound only when request_func returned.                               *)
(***************************************************************************)
handle_request(verb, url, kwargs, o) ==
    LET bound == o.kind = "response"
        raised == try_body(o)
        logs ==
            (IF http_clause(raised) /\ bound
             THEN <<ErrorRecord("HTTP Error [" \o ToString(o.status) \o "]: " \o o.text)>>
             ELSE <<>>)
            \o (IF network_clause(raised)
                THEN <<ErrorRecord("Network Error: " \o raised.type)>>
                ELSE <<>>)
        exc == IF http_clause(raised) /\ ~bound THEN Exc("UnboundLocalError") ELSE raised
    IN  [sent |-> request_calls(Request(verb, url, kwargs), raised),
         logs |-> logs,
         exc |-> exc,
         ret |-> IF exc = NoExc THEN json(o.text) ELSE <<>>]

----------------------------------------------------------------------------
(* Arguments the callers supply *)

Keys == {"", "sk-live"}
Prompts == {"bittensor"}
ToolLists == {<<"web", "twitter">>, <<"bogus">>}
Models == {"NOVA", "GPT-9"}
DateFilters == {None, PyStr("PAST_WEEK"), PyStr("LAST_CENTURY")}
Streamings == {None, PyBool(FALSE)}
WebQueries == {"cats", ""}
Nums == {10}
Starts == {0, 10}
MaxUrls == 1
UrlLists == {[i \in 1..n |-> "https://x.com/a/status/1"] : n \in 0..MaxUrls}
Ids == {"12345", "987"}

(* The optional arguments of basic_twitter_search, by declared type. *)
StrOptionals == {"sort", "user", "start_date", "end_date", "lang"}
BoolOptionals == {"verified", "blue_verified", "is_quote", "is_video", "is_image"}
IntOptionals == {"min_retweets", "min_replies", "min_likes"}
TwitterOptionals == StrOptionals \cup BoolOptionals \cup IntOptionals

(* A supplied value of an optional: variant 0 is the falsy value of its    *)
(* type ("", False, 0), variant 1 a truthy one.                            *)
ArgValue(k, variant) ==
    IF k \in StrOptionals THEN PyStr(IF variant = 0 THEN "" ELSE "Top")
    ELSE IF k \in BoolOptionals THEN PyBool(variant = 1)
    ELSE PyInt(variant)

(* The argument list with the optionals of S supplied and the others left  *)
(* at their default None.                                                  *)
TwitterArgs(query, S, variant) ==
    [k \in {"query"} \cup TwitterOptionals |->
        IF k = "query" THEN PyStr(query)
        ELSE IF k \in S THEN ArgValue(k, variant)
        ELSE None]

AllTwitterArgs ==
    {TwitterArgs("foo", S, variant) : S \in SUBSET TwitterOptionals, variant \in 0..1}

SampleTwitterArgs ==
    {TwitterArgs(q, S, variant) :
        q \in {"foo"},
        S \in {{}, {"sort"}, {"verified", "min_likes"}, TwitterOptionals},
        variant \in 0..1}

----------------------------------------------------------------------------
(* Payload assembly of the endpoint methods *)

ai_search_payload(prompt, tools, model, date_filter, streaming) ==
    [prompt |-> PyStr(prompt), tools |-> PyList(tools), model |-> PyStr(model),
     date_filter |-> date_filter, streaming |-> streaming]

web_links_search_payload(prompt, tools, model) ==
    [prompt |-> PyStr(prompt), tools |-> PyList(tools), model |-> PyStr(model)]

twitter_links_search_payload(prompt, model) ==
    [prompt |-> PyStr(prompt), model |-> PyStr(model)]

(* A comprehension that filters on the truth value of the item. *)
basic_twitter_search_payload_truthy(args) ==
    [k \in {k \in DOMAIN args : Truthy(args[k])} |-> args[k]]

(* The dict comprehension: the items whose value is not None. *)
basic_twitter_search_payload(args) ==
    [k \in {k \in DOMAIN args : args[k] # None} |-> args[k]]

basic_web_search_payload(query, num, start) ==
    [query |-> PyStr(query), num |-> PyInt(num), start |-> PyInt(start)]

twitter_by_urls_payload(urls) == [urls |-> PyList(urls)]

(* A web search that sends its payload as a JSON body. *)
basic_web_search_request_body(query, num, start) ==
    [verb |-> "GET", url |-> BASE_URL \o "/web",
     kwargs |-> JsonBody(basic_web_search_payload(query, num, start))]

(* The requests the endpoint methods hand to handle_request. *)
basic_web_search_request(query, num, start) ==
    [verb |-> "GET", url |-> BASE_URL \o "/web",
     kwargs |-> QueryParams(basic_web_search_payload(query, num, start))]

twitter_by_id_request(id) ==
    [verb |-> "GET", url |-> BASE_URL \o "/twitter/" \o id, kwargs |-> NoKwargs]

(* The typed structure a response class builds from the decoded mapping,   *)
(* when the mapping passes the validation of the class.                    *)
TypedResponse(cls, response) == [cls |-> cls, fields |-> response]

----------------------------------------------------------------------------
(* State *)

NoCall ==
    [method |-> "none", args |-> <<>>,
     outcome |-> [kind |-> "none", exc |-> "none", status |-> 0, text |-> ""],
     sent |-> <<>>, logs |-> <<>>, hrExc |-> NoExc, exc |-> NoExc, ret |-> <<>>]

Init ==
    /\ api_key = <<>>
    /\ session = "absent"
    /\ headers = <<>>
    /\ ctorExc = "none"
    /\ scope = "outside"
    /\ exitPath = "none"
    /\ propagated = FALSE
    /\ call = NoCall
    /\ twInput = <<>>

(* Datura.__init__: a session whose headers carry the key, whatever it is. *)
__init__ ==
    /\ session = "absent"
    /\ \E key \in Keys :
        /\ api_key' = <<key>>
        /\ session' = "open"
        /\ headers' = [h \in {AUTH_HEADER} |-> key]
        /\ ctorExc' = "none"
    /\ UNCHANGED <<scope, exitPath, propagated, call, twInput>>

(* Entering the with statement: __enter__ returns self. *)
__enter__ ==
    /\ session = "open"
    /\ scope = "outside"
    /\ scope' = "inside"
    /\ UNCHANGED <<api_key, session, headers, ctorExc, exitPath, propagated, call, twInput>>

(* An __exit__ that returns True. *)
exit_return_true == PyBool(TRUE)

(* What __exit__ returns: it has no return statement. *)
exit_return == None

(* Leaving the with statement, normally, by a return or by an exception    *)
(* (one raised by the body itself, or the one an endpoint call raised):    *)
(* __exit__ closes the session, and the exception goes on unless __exit__  *)
(* returned a true value.                                                  *)
__exit__ ==
    /\ scope \in {"inside", "unwinding"}
    /\ \E path \in (IF scope = "unwinding" THEN {"raise"} ELSE {"normal", "return", "raise"}) :
        /\ exitPath' = path
        /\ propagated' = (path = "raise" /\ ~Truthy(exit_return))
    /\ session' = "closed"
    /\ scope' = "exited"
    /\ UNCHANGED <<api_key, headers, ctorExc, call, twInput>>

(***************************************************************************)
(* The end of an endpoint method.  o is what request_func did and hr what  *)
(* handle_request made of it; a method                                     *)
(* that wraps the result builds the typed structure cls from the returned  *)
(* value, which raises when the value does not validate; an exception of   *)
(* handle_request leaves the method at once.  Inside a with body an        *)
(* exception the body does not catch starts the unwinding of the scope.    *)
(***************************************************************************)
Finish(method, args, o, hr, cls, valid, caught) ==
    LET exc == IF hr.exc # NoExc THEN hr.exc
               ELSE IF cls # "raw" /\ ~valid THEN Exc("ValidationError")
               ELSE NoExc
        ret == IF exc # NoExc THEN <<>>
               ELSE IF cls = "raw" THEN hr.ret
               ELSE <<TypedResponse(cls, hr.ret[1])>>
    IN  /\ call' = [method |-> method, args |-> args, outcome |-> o, sent |-> hr.sent,
                    logs |-> hr.logs, hrExc |-> hr.exc, exc |-> exc, ret |-> ret]
        /\ scope' = IF scope = "inside" /\ exc # NoExc /\ ~caught THEN "unwinding" ELSE scope
        /\ UNCHANGED <<api_key, session, headers, ctorExc, exitPath, propagated>>

CanCall == session # "absent" /\ scope # "unwinding"

(* The validation of a response class runs only on a returned value, and   *)
(* only a with body can catch an exception before the scope is left.       *)
Validations(o) == IF try_body(o) = NoExc THEN BOOLEAN ELSE {FALSE}
Catches == IF scope = "inside" THEN BOOLEAN ELSE {FALSE}

ai_search ==
    /\ CanCall
    /\ \E prompt \in Prompts, tools \in ToolLists, model \in Models,
          date_filter \in DateFilters, streaming \in Streamings,
          o \in Outcomes, caught \in Catches :
        LET payload == ai_search_payload(prompt, tools, model, date_filter, streaming)
            hr == handle_request("POST", BASE_URL \o "/desearch/ai/search", JsonBody(payload), o)
        IN  Finish("ai_search",
                   [prompt |-> PyStr(prompt), tools |-> PyList(tools), model |-> PyStr(model),
                    date_filter |-> date_filter, streaming |-> streaming],
                   o, hr, "raw", TRUE, caught)
    /\ UNCHANGED twInput

web_links_search ==
    /\ CanCall
    /\ \E prompt \in Prompts, tools \in ToolLists, model \in Models,
          o \in Outcomes :
       \E valid \in Validations(o), caught \in Catches :
        LET payload == web_links_search_payload(prompt, tools, model)
            hr == handle_request("POST", BASE_URL \o "/desearch/ai/search/links/web",
                                 JsonBody(payload), o)
        IN  Finish("web_links_search",
                   [prompt |-> PyStr(prompt), tools |-> PyList(tools), model |-> PyStr(model)],
                   o, hr, "WebLinksSearchResponse", valid, caught)
    /\ UNCHANGED twInput

twitter_links_search ==
    /\ CanCall
    /\ \E prompt \in Prompts, model \in Models,
          o \in Outcomes :
       \E valid \in Validations(o), caught \in Catches :
        LET payload == twitter_links_search_payload(prompt, model)
            hr == handle_request("POST", BASE_URL \o "/desearch/ai/search/links/twitter",
                                 JsonBody(payload), o)
        IN  Finish("twitter_links_search",
                   [prompt |-> PyStr(prompt), model |-> PyStr(model)],
                   o, hr, "TwitterLinksSearchResponse", valid, caught)
    /\ UNCHANGED twInput

(* basic_twitter_search called with the argument list args. *)
basic_twitter_search_call(args, o, valid, caught) ==
    LET payload == basic_twitter_search_payload(args)
        hr == handle_request("POST", BASE_URL \o "/twitter", JsonBody(payload), o)
    IN  Finish("basic_twitter_search", args, o, hr, "BasicTwitterSearchResponse", valid, caught)

basic_twitter_search ==
    /\ CanCall
    /\ twInput = <<>>
    /\ \E args \in SampleTwitterArgs, o \in Outcomes :
       \E valid \in Validations(o), caught \in Catches :
        basic_twitter_search_call(args, o, valid, caught)
    /\ UNCHANGED twInput

basic_web_search ==
    /\ CanCall
    /\ \E query \in WebQueries, num \in Nums, start \in Starts,
          o \in Outcomes :
       \E valid \in Validations(o), caught \in Catches :
        LET req == basic_web_search_request(query, num, start)
            hr == handle_request(req.verb, req.url, req.kwargs, o)
        IN  Finish("basic_web_search",
                   [query |-> PyStr(query), num |-> PyInt(num), start |-> PyInt(start)],
                   o, hr, "BasicWebSearchResponse", valid, caught)
    /\ UNCHANGED twInput

twitter_by_urls ==
    /\ CanCall
    /\ \E urls \in UrlLists, o \in Outcomes :
       \E valid \in Validations(o), caught \in Catches :
        LET payload == twitter_by_urls_payload(urls)
            hr == handle_request("POST", BASE_URL \o "/twitter/urls", JsonBody(payload), o)
        IN  Finish("twitter_by_urls", [urls |-> PyList(urls)],
                   o, hr, "TwitterByUrlsResponse", valid, caught)
    /\ UNCHANGED twInput

twitter_by_id ==
    /\ CanCall
    /\ \E id \in Ids, o \in Outcomes :
       \E valid \in Validations(o), caught \in Catches :
        LET req == twitter_by_id_request(id)
            hr == handle_request(req.verb, req.url, req.kwargs, o)
        IN  Finish("twitter_by_id", [id |-> PyStr(id)],
                   o, hr, "TwitterByIdResponse", valid, caught)
    /\ UNCHANGED twInput

Next ==
    \/ __init__
    \/ __enter__
    \/ __exit__
    \/ ai_search
    \/ web_links_search
    \/ twitter_links_search
    \/ basic_twitter_search
    \/ basic_web_search
    \/ twitter_by_urls
    \/ twitter_by_id

Spec == Init /\ [][Next]_vars

(***************************************************************************)
(* basic_twitter_search over all its argument lists: the client is         *)
(* constructed and one argument list is preset; the only step is the call  *)
(* with that list.                                                         *)
(***************************************************************************)
InitTwitter ==
    /\ \E key \in Keys :
        /\ api_key = <<key>>
        /\ headers = [h \in {AUTH_HEADER} |-> key]
    /\ session = "open"
    /\ ctorExc = "none"
    /\ scope = "outside"
    /\ exitPath = "none"
    /\ propagated = FALSE
    /\ call = NoCall
    /\ twInput \in {<<args>> : args \in AllTwitterArgs}

basic_twitter_search_preset ==
    /\ CanCall
    /\ twInput # <<>>
    /\ \E o \in Outcomes : \E valid \in Validations(o) :
        basic_twitter_search_call(twInput[1], o, valid, FALSE)
    /\ twInput' = <<>>

NextTwitter == basic_twitter_search_preset

SpecTwitter == InitTwitter /\ [][NextTwitter]_vars

----------------------------------------------------------------------------
(* Properties *)

Called(method) == call.method = method
GotResponse == call.outcome.kind = "response"
Success2xx == GotResponse /\ 200 <= call.outcome.status /\ call.outcome.status < 300
ErrorStatus == GotResponse /\ 400 <= call.outcome.status /\ call.outcome.status < 600
HttpErrorOfResponse ==
    /\ call.hrExc.type = "HTTPError"
    /\ call.hrExc.status = call.outcome.status
    /\ call.hrExc.text = call.outcome.text
    /\ call.ret = <<>>

C2_NetworkErrorNoRetry ==
    /\ call.method # "none" => Len(call.sent) = 1
    /\ call.outcome.kind = "raise" =>
        /\ call.hrExc.type = call.outcome.exc
        /\ IsRequestException(call.hrExc) /\ ~IsHTTPError(call.hrExc)
        /\ call.exc = call.hrExc
        /\ call.ret = <<>>

C2_Witness ==
    /\ call.method # "none"
    /\ call.outcome.kind = "raise"
    /\ call.outcome.exc = "Timeout"
    /\ call.hrExc.type = "Timeout"
    /\ Len(call.sent) = 1

(* C3: the JSON body basic_twitter_search sends has the key query and the  *)
(* keys of exactly the optionals supplied with a value other than None,    *)
(* each with the supplied value (False, 0 and "" included); with only      *)
(* query="foo" it is exactly {"query": "foo"}.                             *)
C3_SparseTwitterPayload ==
    Called("basic_twitter_search") =>
        /\ Len(call.sent) = 1
        /\ Len(call.sent[1].json) = 1
        /\ LET payload == call.sent[1].json[1]
               supplied == {k \in TwitterOptionals : call.args[k] # None}
           IN  /\ DOMAIN payload = {"query"} \cup supplied
               /\ \A k \in DOMAIN payload : payload[k] = call.args[k]
               /\ supplied = {} /\ call.args["query"] = PyStr("foo")
                    => payload = [query |-> PyStr("foo")]

C3_Witness ==
    /\ Called("basic_twitter_search")
    /\ call.args["verified"] = PyBool(FALSE)
    /\ call.args["min_likes"] = PyInt(0)
    /\ call.args["lang"] = PyStr("")
    /\ call.args["sort"] = None
    /\ DOMAIN call.sent[1].json[1] =
         {"query", "lang", "verified", "is_quote", "min_likes"}

(* C4: a with statement that was left, on whichever path, has closed the   *)
(* session; an exception that left the body has been propagated out of the *)
(* with statement; and the session is open as long as the body runs.       *)
C4_ScopeClosesSession ==
    /\ scope = "exited" =>
        /\ session = "closed"
        /\ exitPath \in {"normal", "return", "raise"}
        /\ propagated = (exitPath = "raise")
    /\ scope \in {"inside", "unwinding"} => session = "open"
    /\ scope = "outside" => session # "closed"

C4_Witness ==
    /\ scope = "exited"
    /\ exitPath = "raise"
    /\ call.exc # NoExc
    /\ propagated
    /\ session = "closed"

(* C5: a constructor call with an empty key raises ConfigError and leaves  *)
(* no session, no authorization header, and no request is ever dispatched  *)
(* by a client whose key is empty.                                         *)
C5_EmptyKeyRejected ==
    api_key = <<"">> =>
        /\ ctorExc = "ConfigError"
        /\ session = "absent"
        /\ DOMAIN headers = {}
        /\ call.sent = <<>>

(* C6: an endpoint call with a tool, model or date filter outside its      *)
(* declared set fails with a SchemaError and invokes request_func zero     *)
(* times.                                                                  *)
InvalidTools == \E i \in DOMAIN call.args["tools"].items : call.args["tools"].items[i] \notin ToolEnum
InvalidModel == call.args["model"].v \notin ModelEnum
InvalidDateFilter ==
    call.args["date_filter"] # None /\ call.args["date_filter"].v \notin DateFilterEnum
InvalidEnumArgument ==
    \/ Called("ai_search") /\ (InvalidTools \/ InvalidModel \/ InvalidDateFilter)
    \/ Called("web_links_search") /\ (InvalidTools \/ InvalidModel)
    \/ Called("twitter_links_search") /\ InvalidModel

C6_InvalidEnumRejectedBeforeDispatch ==
    InvalidEnumArgument => (call.exc.type = "SchemaError" /\ call.sent = <<>>)

(* C7: a 2xx response whose body is not JSON makes handle_request fail     *)
(* with a decode error that is no RequestException and that the network    *)
(* clause does not log, and return nothing.                                *)
C7_MalformedBodyIsDecodeError ==
    (Success2xx /\ ~IsJson(call.outcome.text)) =>
        /\ call.hrExc.type = "JSONDecodeError"
        /\ ~IsRequestException(call.hrExc)
        /\ \A i \in DOMAIN call.logs :
             call.logs[i] # ErrorRecord("Network Error: " \o call.hrExc.type)
        /\ call.ret = <<>>

(* C8: basic_web_search invokes request_func once, a GET of <base>/web     *)
(* with the query parameters {query, num, start} as supplied and no JSON   *)
(* body; twitter_by_id invokes it once, a GET of <base>/twitter/<id> with  *)
(* neither JSON body nor query parameters.                                 *)
C8_GetEndpoints ==
    /\ Called("basic_web_search") =>
        call.sent = <<[verb |-> "GET", url |-> "https://apis.datura.ai/web",
                       json |-> <<>>,
                       params |-> <<[query |-> call.args["query"], num |-> call.args["num"],
                                     start |-> call.args["start"]]>>,
                       timeout |-> 120]>>
    /\ Called("twitter_by_id") =>
        call.sent = <<[verb |-> "GET",
                       url |-> "https://apis.datura.ai/twitter/" \o call.args["id"].v,
                       json |-> <<>>, params |-> <<>>, timeout |-> 120]>>

C8_Witness ==
    /\ Called("basic_web_search")
    /\ call.args = [query |-> PyStr("cats"), num |-> PyInt(10), start |-> PyInt(0)]
    /\ Len(call.sent) = 1
    /\ call.sent[1].verb = "GET"
    /\ call.sent[1].params = <<[query |-> PyStr("cats"), num |-> PyInt(10), start |-> PyInt(0)]>>

(* C9: the JSON body ai_search sends has the keys prompt, tools and model, *)
(* and date_filter and streaming only when supplied with a value other     *)
(* than None.                                                              *)
C9_SparseAiSearchPayload ==
    Called("ai_search") =>
        DOMAIN call.sent[1].json[1] =
            {"prompt", "tools", "model"}
            \cup {k \in {"date_filter", "streaming"} : call.args[k] # None}

(* C10: a call whose handle_request failed has emitted exactly one error   *)
(* log record (for an HTTPError the record of the HTTP clause), the        *)
(* exception leaving the endpoint method is the one handle_request raised, *)
(* and the endpoint method returned nothing.                               *)
C10_LoggedOnceAndPropagated ==
    (call.method # "none" /\ call.hrExc # NoExc) =>
        /\ Len(call.logs) = 1
        /\ IsHTTPError(call.hrExc) =>
             call.logs[1] = ErrorRecord("HTTP Error [" \o ToString(call.hrExc.status)
                                        \o "]: " \o call.hrExc.text)
        /\ call.exc = call.hrExc
        /\ call.ret = <<>>

C10_Witness ==
    /\ call.method = "twitter_by_urls"
    /\ call.hrExc.type = "HTTPError"
    /\ call.hrExc.status = 503
    /\ Len(call.logs) = 1
    /\ call.exc = call.hrExc

====
